---- MODULE Spec2Model ----
(***************************************************************************)
(* PresetUI: the option model, form state, preset application, command     *)
(* rendering of the line-oriented backend (src/src/rich_preset/core.py,    *)
(* class RichConfigApp) and of the full-screen backend                     *)
(* (src/textual_preset.py, class ConfigTemplate).                          *)
(*                                                                         *)
(* Python values are tagged records [t, v]; dicts are functions whose      *)
(* domain is the key set; lists are sequences; a str is a TLA+ string and  *)
(* " ".join is string concatenation.                                       *)
(***************************************************************************)
EXTENDS Integers, Sequences, FiniteSets, TLC

VARIABLES
    backend,            \* "rich" (RichConfigApp) or "textual" (ConfigTemplate)
    cfg,                \* constructor arguments kept by the app object
    checkbox_states,    \* RichConfigApp._checkbox_states   : dict id -> bool
    parameter_values,   \* RichConfigApp._parameter_values  : dict id -> str
    selected_preset,    \* RichConfigApp._selected_preset   : name or None
    console,            \* what the last Rich operation printed (diagnostics)
    w_selected,         \* SelectionList.selected, restricted to declared ids
    w_value,            \* Input widgets: id -> widget.value
    pressed_index,      \* RadioSet.pressed_index (0 = None, k = k-th preset)
    command_label,      \* Label "#command": the displayed preview string
    mounted,            \* on_mount has run
    pending,            \* a widget change message is queued, not yet handled
    lastOp,             \* the operation that produced this state
    result,             \* the dict returned by the last _collect_parameters / run
    call_args,          \* the arguments of the create_config_app call
    pc,                 \* position inside create_config_app / RichConfigApp.run
    preset_selected,    \* RichConfigApp._preset_selected
    execution_requested,\* RichConfigApp._execution_requested
    args,               \* the namespace parser.parse_args returned
    template_checkbox_states, \* ConfigTemplate._checkbox_states
    template_input_values,    \* ConfigTemplate._input_values
    on_run_callback,    \* ConfigTemplate.on_run_callback is not None
    queue,              \* messages posted to the app and not yet handled
    exit_requested,     \* App.exit() has been called
    closed,             \* the app has handled its exit message
    callbacks           \* the results on_run_callback has been called with

vars == <<backend, cfg, checkbox_states, parameter_values, selected_preset,
          console, w_selected, w_value, pressed_index, command_label,
          mounted, pending, lastOp, result, call_args, pc, preset_selected,
          execution_requested, args, template_checkbox_states,
          template_input_values, on_run_callback, queue, exit_requested, closed,
          callbacks>>

richVars == <<checkbox_states, parameter_values, selected_preset, console>>
sessionVars == <<template_checkbox_states, template_input_values, on_run_callback,
                 queue, exit_requested, closed, callbacks>>
textualVars == <<w_selected, w_value, pressed_index, command_label, mounted, pending,
                 sessionVars>>
runVars == <<call_args, pc, preset_selected, execution_requested, args>>

\* ------------------------------------------------------------------------
\* Bounds
\* ------------------------------------------------------------------------
\* longest reply, in tokens, typed at the toggle prompt
MaxTokens == 2
\* the longest queue of button, key and click messages
MaxQueue == 2

\* ------------------------------------------------------------------------
\* Python values
\* ------------------------------------------------------------------------
None == "<None>"

PyNone == [t |-> "none", v |-> None]
PyStr(s) == [t |-> "str", v |-> s]
PyInt(n) == [t |-> "int", v |-> n]
PyBool(b) == [t |-> "bool", v |-> b]
PyList(xs) == [t |-> "list", v |-> xs]
\* range(a, b)
PyRange(a, b) == [t |-> "range", v |-> <<a, b>>]

\* str(int) for the integers that occur as parser choices
IntStr(n) ==
    CASE n = 0 -> "0" [] n = 1 -> "1" [] n = 2 -> "2" [] n = 3 -> "3"
      [] n = 4 -> "4" [] n = 5 -> "5" [] n = 6 -> "6" [] n = 7 -> "7"
      [] n = 8 -> "8" [] n = 9 -> "9" [] n = 10 -> "10"

\* str(x)
Str(x) ==
    CASE x.t = "str" -> x.v
      [] x.t = "int" -> IntStr(x.v)
      [] x.t = "none" -> "None"
      [] x.t = "bool" -> IF x.v THEN "True" ELSE "False"
      [] x.t = "range" -> "range(" \o IntStr(x.v[1]) \o ", " \o IntStr(x.v[2]) \o ")"

\* d[k] = v on a dict
Put(d, k, v) == [x \in (DOMAIN d) \cup {k} |-> IF x = k THEN v ELSE d[x]]

\* d.get(k, dflt)
Get(d, k, dflt) == IF k \in DOMAIN d THEN d[k] ELSE dflt

EmptyDict == [x \in {} |-> None]

RECURSIVE MapStr(_)
MapStr(xs) == IF xs = <<>> THEN <<>> ELSE <<Str(Head(xs))>> \o MapStr(Tail(xs))

Elems(seq) == {seq[i] : i \in DOMAIN seq}

\* ------------------------------------------------------------------------
\* Option model
\* ------------------------------------------------------------------------
CheckboxOption(label, id, arg, default) ==
    [kind |-> "checkbox", label |-> label, id |-> id, arg |-> arg,
     default |-> default]

InputOption(label, id, arg, default, placeholder) ==
    [kind |-> "input", label |-> label, id |-> id, arg |-> arg,
     default |-> default, placeholder |-> placeholder]

\* variant: a declared default is kept whether or not it is one of the choices
SelectOptionKeepDeclared(label, id, arg, choices, default) ==
    LET cs == MapStr(choices)
        str_default == IF default.t # "none" THEN Str(default) ELSE None
    IN  [kind |-> "select", label |-> label, id |-> id, arg |-> arg,
         choices |-> cs,
         default |-> IF str_default # None THEN str_default
                     ELSE IF cs # <<>> THEN cs[1]
                     ELSE None]

\* choices: a list of Python values; default: a Python value (PyNone if absent)
SelectOption(label, id, arg, choices, default) ==
    LET cs == MapStr(choices)
        str_default == IF default.t # "none" THEN Str(default) ELSE None
    IN  [kind |-> "select", label |-> label, id |-> id, arg |-> arg,
         choices |-> cs,
         default |-> IF str_default \in Elems(cs) THEN str_default
                     ELSE IF cs # <<>> THEN cs[1]
                     ELSE None]

PresetConfig(name, description, cb, iv) ==
    [name |-> name, description |-> description,
     checkbox_options |-> cb, input_values |-> iv]


\* ------------------------------------------------------------------------
\* Application configurations (constructor arguments)
\* ------------------------------------------------------------------------
\* program strings are character lists so that strip('"') can be computed
ProgramQuoted == <<"\"", "d", "e", "m", "o", ".", "p", "y", "\"">>
ProgramPlain  == <<"r", "u", "n", ".", "p", "y">>

ModeChoices == <<PyStr("fast"), PyStr("normal"), PyStr("safe")>>
LevelChoices == <<PyInt(1), PyInt(2), PyInt(3)>>

Presets ==
    << PresetConfig("safe", "safe mode", <<"verbose">>, << <<"mode", "safe">> >>),
       PresetConfig("odd", "inconsistent preset", <<"force", "ghost">>,
                    << <<"mode", "turbo">>, <<"count", "5">>, <<"ghost", "1">> >>),
       PresetConfig("bare", "nothing set", <<>>, <<>>) >>

\* one toggle --verbose (default false) and one text option --count ("10")
RichFormSmall ==
    [program |-> ProgramPlain,
     checkbox_options |-> << CheckboxOption("Verbose", "verbose", "--verbose", FALSE) >>,
     parameter_options |-> << InputOption("Count", "count", "--count", "10", "") >>,
     extra_args |-> <<>>,
     presets |-> Presets]

RichFormFull ==
    [program |-> ProgramQuoted,
     checkbox_options |-> << CheckboxOption("Verbose", "verbose", "--verbose", FALSE),
                             CheckboxOption("Force", "force", "--force", TRUE) >>,
     parameter_options |-> << InputOption("Count", "count", "--count", "10", ""),
                              SelectOption("Mode", "mode", "--mode", ModeChoices, PyStr("normal")),
                              SelectOption("Level", "level", "--level", LevelChoices, PyNone) >>,
     extra_args |-> <<"--tag", "x">>,
     presets |-> Presets]

\* the full-screen backend has input options only
TextualFormSmall == RichFormSmall

TextualFormFull ==
    [program |-> ProgramQuoted,
     checkbox_options |-> << CheckboxOption("Verbose", "verbose", "--verbose", FALSE),
                             CheckboxOption("Force", "force", "--force", TRUE) >>,
     parameter_options |-> << InputOption("Count", "count", "--count", "10", ""),
                              InputOption("Mode", "mode", "--mode", "normal", "") >>,
     extra_args |-> <<"--tag", "x">>,
     presets |-> Presets]

RichForms == {RichFormSmall, RichFormFull}
TextualForms == {TextualFormSmall, TextualFormFull}

checkbox_options == cfg.checkbox_options
parameter_options == cfg.parameter_options
extra_args == cfg.extra_args
presets == cfg.presets

PresetNames == {presets[i].name : i \in DOMAIN presets}
PresetNamed(name) == presets[CHOOSE i \in DOMAIN presets : presets[i].name = name]

CheckboxIds == {checkbox_options[i].id : i \in DOMAIN checkbox_options}
ParameterIds == {parameter_options[i].id : i \in DOMAIN parameter_options}

\* ------------------------------------------------------------------------
\* Line-oriented backend: RichConfigApp
\* ------------------------------------------------------------------------
\* The form state of a RichConfigApp as one value
RichState == [checkbox_states |-> checkbox_states,
              parameter_values |-> parameter_values,
              selected_preset |-> selected_preset]

\* {opt.id: opt.default for opt in opts}, built left to right
RECURSIVE DefaultsDict(_, _)
DefaultsDict(opts, d) ==
    IF opts = <<>> THEN d
    ELSE DefaultsDict(Tail(opts), Put(d, Head(opts).id, Head(opts).default))

\* RichConfigApp.__init__
RichInitState ==
    [checkbox_states |-> DefaultsDict(checkbox_options, EmptyDict),
     parameter_values |-> DefaultsDict(parameter_options, EmptyDict),
     selected_preset |-> None]

\* for opt in self.checkbox_options: self._checkbox_states[opt.id] = False
RECURSIVE ResetCheckboxes(_, _)
ResetCheckboxes(cs, opts) ==
    IF opts = <<>> THEN cs
    ELSE ResetCheckboxes(Put(cs, Head(opts).id, FALSE), Tail(opts))

\* variant: the preset flips its checkboxes instead of setting them
RECURSIVE SetCheckboxesFlip(_, _)
SetCheckboxesFlip(cs, ids) ==
    IF ids = <<>> THEN cs
    ELSE SetCheckboxesFlip(Put(cs, Head(ids), ~Get(cs, Head(ids), FALSE)), Tail(ids))

\* for option_id in preset.checkbox_options: self._checkbox_states[option_id] = True
RECURSIVE SetCheckboxes(_, _)
SetCheckboxes(cs, ids) ==
    IF ids = <<>> THEN cs
    ELSE SetCheckboxes(Put(cs, Head(ids), TRUE), Tail(ids))

\* variant: parameter values are not reset before the preset is overlaid
ResetParametersSkipped(pv, opts) == pv

\* for opt in self.parameter_options: self._parameter_values[opt.id] = opt.default
RECURSIVE ResetParameters(_, _)
ResetParameters(pv, opts) ==
    IF opts = <<>> THEN pv
    ELSE ResetParameters(Put(pv, Head(opts).id, Head(opts).default), Tail(opts))

\* next((opt for opt in self.parameter_options if opt.id == option_id), None)
FindParameter(option_id) ==
    LET hits == {i \in DOMAIN parameter_options : parameter_options[i].id = option_id}
    IN  IF hits = {} THEN None
        ELSE parameter_options[CHOOSE i \in hits : \A j \in hits : i <= j]

Warning(kind, preset_name, id, value, default) ==
    [kind |-> kind, preset |-> preset_name, id |-> id, value |-> value,
     default |-> default]

\* variant: preset values are stored without the choice check
RECURSIVE OverlayValuesUnchecked(_, _, _)
OverlayValuesUnchecked(r, items, preset_name) ==
    IF items = <<>> THEN r
    ELSE LET option_id == Head(items)[1]
             value == Head(items)[2]
         IN  IF option_id \notin DOMAIN r.pv
             THEN OverlayValuesUnchecked(r, Tail(items), preset_name)
             ELSE OverlayValuesUnchecked([r EXCEPT !.pv = Put(r.pv, option_id, value)],
                                         Tail(items), preset_name)

\* for option_id, value in preset.input_values.items(): ...
\* r = [pv |-> parameter values, out |-> printed warnings]
RECURSIVE OverlayValues(_, _, _)
OverlayValues(r, items, preset_name) ==
    IF items = <<>> THEN r
    ELSE LET option_id == Head(items)[1]
             value == Head(items)[2]
         IN  IF option_id \notin DOMAIN r.pv
             THEN OverlayValues(r, Tail(items), preset_name)
             ELSE LET option == FindParameter(option_id)
                  IN  IF option.kind = "select"
                      THEN IF value \in Elems(option.choices)
                           THEN OverlayValues([r EXCEPT !.pv = Put(r.pv, option_id, value)],
                                              Tail(items), preset_name)
                           ELSE OverlayValues(
                                  [r EXCEPT !.out = Append(r.out,
                                      Warning("invalid_preset_value", preset_name,
                                              option_id, value, r.pv[option_id]))],
                                  Tail(items), preset_name)
                      ELSE OverlayValues([r EXCEPT !.pv = Put(r.pv, option_id, value)],
                                         Tail(items), preset_name)

\* RichConfigApp._apply_preset; result [s |-> form state, out |-> printed]
ApplyPreset(s, preset_name) ==
    IF preset_name \notin PresetNames THEN [s |-> s, out |-> <<>>]
    ELSE LET preset == PresetNamed(preset_name)
             cs == SetCheckboxes(ResetCheckboxes(s.checkbox_states, checkbox_options),
                                 preset.checkbox_options)
             r  == OverlayValues([pv |-> ResetParameters(s.parameter_values, parameter_options),
                                  out |-> <<>>],
                                 preset.input_values, preset_name)
         IN  [s |-> [checkbox_states |-> cs,
                     parameter_values |-> r.pv,
                     selected_preset |-> preset_name],
              out |-> r.out]

\* program.strip('"') on a character list
RECURSIVE LStrip(_)
LStrip(cs) == IF cs # <<>> /\ Head(cs) = "\"" THEN LStrip(Tail(cs)) ELSE cs

RECURSIVE RStrip(_)
RStrip(cs) ==
    IF cs # <<>> /\ cs[Len(cs)] = "\"" THEN RStrip(SubSeq(cs, 1, Len(cs) - 1)) ELSE cs

RECURSIVE Chars(_)
Chars(cs) == IF cs = <<>> THEN "" ELSE Head(cs) \o Chars(Tail(cs))

program_path == Chars(RStrip(LStrip(cfg.program)))

\* " ".join(tokens)
RECURSIVE Join(_)
Join(tokens) ==
    IF tokens = <<>> THEN ""
    ELSE IF Len(tokens) = 1 THEN tokens[1]
    ELSE tokens[1] \o " " \o Join(Tail(tokens))

\* variant: a checkbox is rendered from its declared default, not its state
RECURSIVE AppendCheckboxArgsByDefault(_, _, _)
AppendCheckboxArgsByDefault(cmd, opts, cs) ==
    IF opts = <<>> THEN cmd
    ELSE AppendCheckboxArgsByDefault(
            IF Head(opts).default THEN Append(cmd, Head(opts).arg) ELSE cmd,
            Tail(opts), cs)

\* for opt in self.checkbox_options: if states.get(opt.id, False): cmd.append(opt.arg)
RECURSIVE AppendCheckboxArgs(_, _, _)
AppendCheckboxArgs(cmd, opts, cs) ==
    IF opts = <<>> THEN cmd
    ELSE AppendCheckboxArgs(
            IF Get(cs, Head(opts).id, FALSE) THEN Append(cmd, Head(opts).arg) ELSE cmd,
            Tail(opts), cs)

\* variant: empty values are rendered too
RECURSIVE AppendParameterArgsAll(_, _, _)
AppendParameterArgsAll(cmd, opts, pv) ==
    IF opts = <<>> THEN cmd
    ELSE LET value == Get(pv, Head(opts).id, "")
             str_value == IF value # None THEN value ELSE ""
         IN  AppendParameterArgsAll(cmd \o <<Head(opts).arg, str_value>>, Tail(opts), pv)

\* for opt in self.parameter_options: ... if str_value: cmd.extend([opt.arg, str_value])
RECURSIVE AppendParameterArgs(_, _, _)
AppendParameterArgs(cmd, opts, pv) ==
    IF opts = <<>> THEN cmd
    ELSE LET value == Get(pv, Head(opts).id, "")
             str_value == IF value # None THEN value ELSE ""
         IN  AppendParameterArgs(
                IF str_value # "" THEN cmd \o <<Head(opts).arg, str_value>> ELSE cmd,
                Tail(opts), pv)

\* variant: parameters are rendered before the checkboxes
CommandListParametersFirst(s) ==
    LET c0 == <<"python", program_path>>
        c1 == AppendParameterArgs(c0, parameter_options, s.parameter_values)
        c2 == AppendCheckboxArgs(c1, checkbox_options, s.checkbox_states)
    IN  IF extra_args # <<>> THEN c2 \o extra_args ELSE c2

\* the list cmd of _generate_command_preview just before the join
CommandList(s) ==
    LET c0 == <<"python", program_path>>
        c1 == AppendCheckboxArgs(c0, checkbox_options, s.checkbox_states)
        c2 == AppendParameterArgs(c1, parameter_options, s.parameter_values)
    IN  IF extra_args # <<>> THEN c2 \o extra_args ELSE c2

\* RichConfigApp._generate_command_preview
GenerateCommandPreview(s) == Join(CommandList(s))

\* the rendered argument vector: the command without "python" and the path
ArgVector(s) == SubSeq(CommandList(s), 3, Len(CommandList(s)))

\* RichConfigApp._generate_preset_command; result [s, out, cmd]
GeneratePresetCommand(s, preset_name) ==
    IF preset_name \notin PresetNames THEN [s |-> s, out |-> <<>>, cmd |-> ""]
    ELSE LET temp_checkbox_states == s.checkbox_states
             temp_parameter_values == s.parameter_values
             a == ApplyPreset(s, preset_name)
             cmd == GenerateCommandPreview(a.s)
         IN  [s |-> [a.s EXCEPT !.checkbox_states = temp_checkbox_states,
                                !.parameter_values = temp_parameter_values],
              out |-> a.out, cmd |-> cmd]

\* int(token) for the tokens a user types; "ValueError" when int() raises
IndexTokens == {"0", "1", "2", "3", "4", "x"}

ParseInt(tok) ==
    CASE tok = "0" -> 0 [] tok = "1" -> 1 [] tok = "2" -> 2
      [] tok = "3" -> 3 [] tok = "4" -> 4
      [] OTHER -> "ValueError"

IsInt(tok) == tok \in {"0", "1", "2", "3", "4"}

\* replies at the toggle prompt, already split on whitespace
RECURSIVE TokenSeqs(_)
TokenSeqs(n) ==
    IF n = 0 THEN {<<>>}
    ELSE TokenSeqs(n - 1) \cup
         {Append(t, k) : t \in {u \in TokenSeqs(n - 1) : Len(u) = n - 1},
                         k \in {"1", "2", "3", "x"}}

\* for i, opt in enumerate(self.checkbox_options, 1):
\*     if i in selected_indices: states[opt.id] = not states.get(opt.id, False)
RECURSIVE FlipSelected(_, _, _)
FlipSelected(cs, i, selected_indices) ==
    IF i > Len(checkbox_options) THEN cs
    ELSE LET opt == checkbox_options[i]
         IN  FlipSelected(
                IF i \in selected_indices
                THEN Put(cs, opt.id, ~Get(cs, opt.id, FALSE)) ELSE cs,
                i + 1, selected_indices)

\* RichConfigApp._display_checkbox_options with the reply `choice`
DisplayCheckboxOptions(s, choice) ==
    IF checkbox_options = <<>> \/ choice = <<>> THEN [s |-> s, out |-> <<>>]
    ELSE IF \E k \in DOMAIN choice : ~IsInt(choice[k])
         THEN [s |-> s,
               out |-> <<Warning("invalid_format", None, None, None, None)>>]
         ELSE LET selected_indices == {ParseInt(choice[k]) : k \in DOMAIN choice}
              IN  [s |-> [s EXCEPT !.checkbox_states =
                                      FlipSelected(s.checkbox_states, 1, selected_indices)],
                   out |-> <<Warning("updated", None, None, None, None)>>]

\* values typed after the index on a parameter line (parts[1])
LineValues == {"5", "safe", "turbo"}

\* variant: a directly typed choice value is stored without the membership test
SetSelectValueUnchecked(s, opt, value) ==
    [s |-> [s EXCEPT !.parameter_values = Put(@, opt.id, value)],
     out |-> <<Warning("set", None, opt.id, value, None)>>]

\* the branch "if value_provided:" for a SelectOption
SetSelectValue(s, opt, value) ==
    IF value \in Elems(opt.choices)
    THEN [s |-> [s EXCEPT !.parameter_values = Put(@, opt.id, value)],
          out |-> <<Warning("set", None, opt.id, value, None)>>]
    ELSE [s |-> s,
          out |-> <<Warning("invalid_choice", None, opt.id, value, None)>>]

\* One pass of the while loop of RichConfigApp._display_parameter_options
\* for a non-empty line  "<idx_str> [<value>]"; `reply` answers the nested
\* Prompt.ask(choices=opt.choices, default=current), "" meaning Enter.
ParameterLine(s, idx_str, value_provided, value, reply) ==
    IF ~IsInt(idx_str)
    THEN [s |-> s, out |-> <<Warning("invalid_index", None, None, idx_str, None)>>]
    ELSE LET idx == ParseInt(idx_str)
         IN  IF ~(1 <= idx /\ idx <= Len(parameter_options))
             THEN [s |-> s,
                   out |-> <<Warning("index_out_of_range", None, None, idx_str, None)>>]
             ELSE LET opt == parameter_options[idx]
                  IN  IF opt.kind = "input"
                      THEN LET v == IF value_provided THEN value ELSE ""
                           IN  [s |-> [s EXCEPT !.parameter_values = Put(@, opt.id, v)],
                                out |-> <<Warning("set", None, opt.id, v, None)>>]
                      ELSE IF value_provided
                           THEN SetSelectValue(s, opt, value)
                           ELSE LET selected_choice ==
                                        IF reply = ""
                                        THEN Get(s.parameter_values, opt.id, opt.default)
                                        ELSE reply
                                IN  [s |-> [s EXCEPT !.parameter_values =
                                                        Put(@, opt.id, selected_choice)],
                                     out |-> <<Warning("set", None, opt.id, selected_choice, None)>>]

\* the answers the nested choice prompt accepts for parameter idx_str
ChoiceReplies(idx_str) ==
    IF IsInt(idx_str) /\ ParseInt(idx_str) \in DOMAIN parameter_options
       /\ parameter_options[ParseInt(idx_str)].kind = "select"
    THEN Elems(parameter_options[ParseInt(idx_str)].choices) \cup {""}
    ELSE {""}

\* for opt in self.checkbox_options: params['options'][opt.arg] = states.get(opt.id, False)
RECURSIVE CollectOptions(_, _, _)
CollectOptions(d, opts, cs) ==
    IF opts = <<>> THEN d
    ELSE CollectOptions(Put(d, Head(opts).arg, Get(cs, Head(opts).id, FALSE)),
                        Tail(opts), cs)

\* for opt in self.parameter_options:
\*     params['inputs'][opt.arg] = str(value) if value is not None else ""
RECURSIVE CollectInputs(_, _, _)
CollectInputs(d, opts, pv) ==
    IF opts = <<>> THEN d
    ELSE LET value == Get(pv, Head(opts).id, None)
         IN  CollectInputs(Put(d, Head(opts).arg, IF value # None THEN value ELSE ""),
                           Tail(opts), pv)

\* RichConfigApp._collect_parameters
CollectParameters(s) ==
    [options |-> CollectOptions(EmptyDict, checkbox_options, s.checkbox_states),
     inputs |-> CollectInputs(EmptyDict, parameter_options, s.parameter_values),
     preset |-> s.selected_preset]

\* variant: showing the preview forgets the selected preset
DisplayCommandPreviewForgetting(s) ==
    [s |-> [s EXCEPT !.selected_preset = None],
     out |-> <<Warning("preview", None, None, GenerateCommandPreview(s), None)>>]

\* RichConfigApp._display_command_preview: prints the preview, assigns nothing
DisplayCommandPreview(s) ==
    [s |-> s,
     out |-> <<Warning("preview", None, None, GenerateCommandPreview(s), None)>>]

\* ------------------------------------------------------------------------
\* Full-screen backend: ConfigTemplate
\* ------------------------------------------------------------------------
\* The form state of a ConfigTemplate lives in its widgets
TextualState == [selected |-> w_selected, value |-> w_value]

\* ConfigTemplate.compose: SelectionList(... opt.default) and Input(value=opt.default)
TextualInitState ==
    [selected |-> {checkbox_options[i].id : i \in {j \in DOMAIN checkbox_options :
                                                    checkbox_options[j].default}},
     value |-> DefaultsDict(parameter_options, EmptyDict)]

\* preset.input_values.get(id) on the item list
RECURSIVE ItemsGet(_, _)
ItemsGet(items, id) ==
    IF items = <<>> THEN None
    ELSE IF Head(items)[1] = id THEN Head(items)[2]
    ELSE ItemsGet(Tail(items), id)

\* for opt in self.parameter_options:
\*     widget.value = preset_value if preset_value is not None else ""
RECURSIVE SetInputWidgets(_, _, _)
SetInputWidgets(wv, opts, items) ==
    IF opts = <<>> THEN wv
    ELSE LET preset_value == ItemsGet(items, Head(opts).id)
         IN  SetInputWidgets(
                Put(wv, Head(opts).id, IF preset_value # None THEN preset_value ELSE ""),
                Tail(opts), items)

\* selection_list.deselect_all(); for option_id in ...: selection_list.select(option_id)
\* (only the selection of declared options is ever read back)
SelectPreset(ids) == Elems(ids) \cap CheckboxIds

\* the form-state part of ConfigTemplate._apply_preset
TextualApplyPreset(s, preset_name) ==
    IF preset_name \notin PresetNames THEN s
    ELSE LET preset == PresetNamed(preset_name)
         IN  [selected |-> SelectPreset(preset.checkbox_options),
              value |-> SetInputWidgets(s.value, parameter_options, preset.input_values)]

\* for opt in self.checkbox_options: if opt.id in selected_options: cmd.append(opt.arg)
RECURSIVE AppendSelectedArgs(_, _, _)
AppendSelectedArgs(cmd, opts, selected_options) ==
    IF opts = <<>> THEN cmd
    ELSE AppendSelectedArgs(
            IF Head(opts).id \in selected_options THEN Append(cmd, Head(opts).arg) ELSE cmd,
            Tail(opts), selected_options)

\* for opt in self.parameter_options: value = widget.value; if value: cmd.extend(...)
RECURSIVE AppendWidgetArgs(_, _, _)
AppendWidgetArgs(cmd, opts, wv) ==
    IF opts = <<>> THEN cmd
    ELSE LET value == wv[Head(opts).id]
         IN  AppendWidgetArgs(
                IF value # "" THEN cmd \o <<Head(opts).arg, value>> ELSE cmd,
                Tail(opts), wv)

\* the list cmd of ConfigTemplate._update_command_preview before the join
TextualCommandList(s) ==
    LET c0 == <<"python", program_path>>
        c1 == AppendSelectedArgs(c0, checkbox_options, s.selected)
        c2 == AppendWidgetArgs(c1, parameter_options, s.value)
    IN  IF extra_args # <<>> THEN c2 \o extra_args ELSE c2

\* the text ConfigTemplate._update_command_preview puts into "#command"
UpdateCommandPreview(s) == Join(TextualCommandList(s))

TextualArgVector(s) == SubSeq(TextualCommandList(s), 3, Len(TextualCommandList(s)))

\* values a user types into an Input widget
TypedValues == {"", "5", "safe", " 5"}

\* a str as a list of pieces: whitespace characters and whitespace-free runs
CharsOf(v) ==
    CASE v = "" -> <<>>
      [] v = " 5" -> <<" ", "5">>
      [] OTHER -> <<v>>

\* str.strip() on a list of pieces
RECURSIVE LStripWs(_)
LStripWs(cs) == IF cs # <<>> /\ Head(cs) = " " THEN LStripWs(Tail(cs)) ELSE cs

RECURSIVE RStripWs(_)
RStripWs(cs) ==
    IF cs # <<>> /\ cs[Len(cs)] = " " THEN RStripWs(SubSeq(cs, 1, Len(cs) - 1)) ELSE cs

Strip(v) == Chars(RStripWs(LStripWs(CharsOf(v))))

\* for opt in self.checkbox_options: params['options'][opt.arg] = opt.id in selected
RECURSIVE CollectSelected(_, _, _)
CollectSelected(d, opts, selected_options) ==
    IF opts = <<>> THEN d
    ELSE CollectSelected(Put(d, Head(opts).arg, Head(opts).id \in selected_options),
                         Tail(opts), selected_options)

\* for opt in self.parameter_options: params['inputs'][opt.arg] = widget.value.strip()
RECURSIVE CollectWidgets(_, _, _)
CollectWidgets(d, opts, wv) ==
    IF opts = <<>> THEN d
    ELSE CollectWidgets(Put(d, Head(opts).arg, Strip(wv[Head(opts).id])), Tail(opts), wv)

\* ConfigTemplate._collect_parameters; pressed = RadioSet.pressed_index (0 = None)
TextualCollectParameters(s, pressed) ==
    [options |-> CollectSelected(EmptyDict, checkbox_options, s.selected),
     inputs |-> CollectWidgets(EmptyDict, parameter_options, s.value),
     preset |-> IF presets # <<>> /\ pressed # 0 THEN presets[pressed].name ELSE None]

\* RichConfigApp.get_checkbox_state / get_input_value
GetCheckboxState(checkbox_id) == Get(checkbox_states, checkbox_id, FALSE)

GetInputValue(input_id) == Get(parameter_values, input_id, "")

\* ConfigTemplate.get_checkbox_state / get_input_value
TextualGetCheckboxState(checkbox_id) == checkbox_id \in DOMAIN template_checkbox_states

TextualGetInputValue(input_id) == Get(template_input_values, input_id, "")

\* ------------------------------------------------------------------------
\* State machine
\* ------------------------------------------------------------------------
Op(name, arg) == [op |-> name, arg |-> arg]

Init ==
    /\ backend \in {"rich", "textual"}
    /\ cfg \in (IF backend = "rich" THEN RichForms ELSE TextualForms)
    /\ IF backend = "rich"
       THEN /\ checkbox_states = RichInitState.checkbox_states
            /\ parameter_values = RichInitState.parameter_values
            /\ w_selected = {}
            /\ w_value = EmptyDict
       ELSE /\ checkbox_states = EmptyDict
            /\ parameter_values = EmptyDict
            /\ w_selected = TextualInitState.selected
            /\ w_value = TextualInitState.value
    /\ selected_preset = None
    /\ console = <<>>
    /\ pressed_index = 0
    /\ command_label = ""
    /\ mounted = FALSE
    /\ pending = FALSE
    /\ lastOp = Op("init", <<>>)
    /\ result = None
    /\ call_args = None
    /\ pc = "api"
    /\ preset_selected = FALSE
    /\ execution_requested = FALSE
    /\ args = None
    /\ template_checkbox_states = EmptyDict
    /\ template_input_values = EmptyDict
    /\ on_run_callback = FALSE
    /\ queue = <<>>
    /\ exit_requested = FALSE
    /\ closed = FALSE
    /\ callbacks = <<>>

SetRich(r, op) ==
    /\ checkbox_states' = r.s.checkbox_states
    /\ parameter_values' = r.s.parameter_values
    /\ selected_preset' = r.s.selected_preset
    /\ console' = r.out
    /\ lastOp' = op
    /\ result' = None
    /\ UNCHANGED <<backend, cfg, textualVars, runVars>>

\* a call of _apply_preset(preset_name)
RichApplyPreset ==
    /\ backend = "rich"
    /\ \E preset_name \in PresetNames \cup {"nosuch"} :
          SetRich(ApplyPreset(RichState, preset_name), Op("apply", <<preset_name>>))

\* a call of _generate_preset_command(preset_name)
RichGeneratePresetCommand ==
    /\ backend = "rich"
    /\ \E preset_name \in PresetNames \cup {"nosuch"} :
          SetRich(GeneratePresetCommand(RichState, preset_name),
                  Op("preset_command", <<preset_name>>))

\* the toggle-editing step with the user's reply
RichDisplayCheckboxOptions ==
    /\ backend = "rich"
    /\ \E choice \in TokenSeqs(MaxTokens) :
          SetRich(DisplayCheckboxOptions(RichState, choice), Op("checkboxes", <<>>))

\* one line entered in the parameter-editing step
RichParameterLine ==
    /\ backend = "rich"
    /\ parameter_options # <<>>
    /\ \E idx_str \in IndexTokens, value_provided \in BOOLEAN :
       \E value \in (IF value_provided THEN LineValues ELSE {""}) :
       \E reply \in (IF value_provided THEN {""} ELSE ChoiceReplies(idx_str)) :
          SetRich(ParameterLine(RichState, idx_str, value_provided, value, reply),
                  Op("line", <<>>))

SetTextual(s, label, idx, pend, op) ==
    /\ w_selected' = s.selected
    /\ w_value' = s.value
    /\ command_label' = label
    /\ pressed_index' = idx
    /\ pending' = pend
    /\ lastOp' = op
    /\ result' = None
    /\ UNCHANGED <<backend, cfg, richVars, mounted, runVars, sessionVars>>

\* ConfigTemplate.on_mount
OnMount ==
    /\ backend = "textual"
    /\ ~closed
    /\ ~mounted
    /\ mounted' = TRUE
    /\ command_label' = UpdateCommandPreview(TextualState)
    /\ lastOp' = Op("mount", <<>>)
    /\ UNCHANGED <<backend, cfg, richVars, w_selected, w_value, pressed_index, pending,
                   result, runVars, sessionVars>>

\* the user flips an entry of the SelectionList; the widget queues its message
UserToggle ==
    /\ backend = "textual"
    /\ ~closed
    /\ mounted
    /\ \E id \in CheckboxIds :
          SetTextual([TextualState EXCEPT !.selected =
                          IF id \in @ THEN @ \ {id} ELSE @ \cup {id}],
                     command_label, pressed_index, TRUE, Op("toggle", <<id>>))

\* the user edits an Input; the widget queues Input.Changed
UserType ==
    /\ backend = "textual"
    /\ ~closed
    /\ mounted
    /\ \E id \in ParameterIds, v \in TypedValues :
          /\ v # w_value[id]
          /\ SetTextual([TextualState EXCEPT !.value = Put(@, id, v)],
                        command_label, pressed_index, TRUE, Op("type", <<id, v>>))

\* on_input_changed / on_selection_list_*: refresh the preview
OnWidgetChanged ==
    /\ backend = "textual"
    /\ ~closed
    /\ pending
    /\ SetTextual(TextualState, UpdateCommandPreview(TextualState), pressed_index,
                  FALSE, Op("changed", <<>>))

\* the 0.1 s interval timer set in on_mount
TimerTick ==
    /\ backend = "textual"
    /\ ~closed
    /\ mounted
    /\ SetTextual(TextualState, UpdateCommandPreview(TextualState), pressed_index,
                  pending, Op("tick", <<>>))

\* variant: the preview is rendered after the inputs of the preset are set
\* and before its checkboxes are
OnRadioSetChangedPartial ==
    /\ backend = "textual"
    /\ ~closed
    /\ mounted
    /\ \E k \in DOMAIN presets :
          LET s == TextualApplyPreset(TextualState, presets[k].name)
          IN  SetTextual(s, UpdateCommandPreview([s EXCEPT !.selected = w_selected]), k,
                         TRUE, Op("apply", <<presets[k].name>>))

\* ConfigTemplate.on_radio_set_changed for the k-th radio button
OnRadioSetChanged ==
    /\ backend = "textual"
    /\ ~closed
    /\ mounted
    /\ \E k \in DOMAIN presets :
          LET s == TextualApplyPreset(TextualState, presets[k].name)
          IN  SetTextual(s, UpdateCommandPreview(s), k, TRUE,
                         Op("apply", <<presets[k].name>>))

\* a call of _display_command_preview()
RichDisplayCommandPreview ==
    /\ backend = "rich"
    /\ SetRich(DisplayCommandPreview(RichState), Op("preview", <<>>))

\* a call of RichConfigApp._collect_parameters()
RichCollectParameters ==
    /\ backend = "rich"
    /\ result' = CollectParameters(RichState)
    /\ console' = <<>>
    /\ lastOp' = Op("collect", <<>>)
    /\ UNCHANGED <<backend, cfg, checkbox_states, parameter_values, selected_preset,
                   textualVars, runVars>>

\* a call of ConfigTemplate._collect_parameters()
TextualCollect ==
    /\ backend = "textual"
    /\ mounted
    /\ result' = TextualCollectParameters(TextualState, pressed_index)
    /\ lastOp' = Op("collect", <<>>)
    /\ UNCHANGED <<backend, cfg, richVars, textualVars, runVars>>

Next ==
    \/ RichDisplayCommandPreview
    \/ RichCollectParameters
    \/ TextualCollect
    \/ RichApplyPreset
    \/ RichGeneratePresetCommand
    \/ RichDisplayCheckboxOptions
    \/ RichParameterLine
    \/ OnMount
    \/ UserToggle
    \/ UserType
    \/ OnWidgetChanged
    \/ TimerTick
    \/ OnRadioSetChanged

Spec == Init /\ [][Next]_vars

\* ------------------------------------------------------------------------
\* argparse: the parser handed to create_config_app
\* ------------------------------------------------------------------------
SUPPRESS == "==SUPPRESS=="

\* one element of parser._actions; class is the action's class name
ArgparseAction(class, option_strings, dest, default, type, choices, nargs, help) ==
    [class |-> class, option_strings |-> option_strings, dest |-> dest,
     default |-> default, type |-> type, choices |-> choices, nargs |-> nargs,
     help |-> help]

HelpAction ==
    ArgparseAction("_HelpAction", <<"-h", "--help">>, "help", PyStr(SUPPRESS), "str",
                   PyNone, "0", "show this help message and exit")

NoParser == [t |-> "none", actions |-> <<>>]
ArgumentParser(actions) == [t |-> "parser", actions |-> actions]

\* the elements of a choices container in iteration order
Items(c) ==
    CASE c.t = "list" -> c.v
      [] c.t = "range" -> [i \in 1..(c.v[2] - c.v[1]) |-> PyInt(c.v[1] + i - 1)]
      [] OTHER -> <<>>

\* bool(x) of a choices container or None
Truthy(c) == Items(c) # <<>>

\* int(text)
IntOfText(text) ==
    CASE text = "0" -> PyInt(0) [] text = "1" -> PyInt(1) [] text = "2" -> PyInt(2)
      [] text = "3" -> PyInt(3) [] text = "4" -> PyInt(4) [] text = "5" -> PyInt(5)
      [] text = "10" -> PyInt(10)
      [] OTHER -> [t |-> "error", v |-> text]

\* action.type(text)
Convert(type, text) == IF type = "int" THEN IntOfText(text) ELSE PyStr(text)

\* value in action.choices
InChoices(value, c) ==
    \E k \in DOMAIN Items(c) : Items(c)[k].t = value.t /\ Items(c)[k].v = value.v

OptionStrings(actions) == UNION {Elems(actions[i].option_strings) : i \in DOMAIN actions}

ActionFor(actions, tok) ==
    actions[CHOOSE i \in DOMAIN actions : tok \in Elems(actions[i].option_strings)]

Positionals(actions) == SelectSeq(actions, LAMBDA a : a.option_strings = <<>>)

\* the namespace before any argument is read: every default but SUPPRESS
RECURSIVE NamespaceDefaults(_, _)
NamespaceDefaults(actions, ns) ==
    IF actions = <<>> THEN ns
    ELSE LET a == Head(actions)
             suppressed == a.default.t = "str" /\ a.default.v = SUPPRESS
         IN  NamespaceDefaults(Tail(actions),
                IF suppressed \/ a.dest \in DOMAIN ns THEN ns
                ELSE Put(ns, a.dest, a.default))

SystemExit == [exit |-> TRUE, ns |-> EmptyDict]

\* the argument loop of parse_args; rest = the positionals not yet filled
RECURSIVE ConsumeArgs(_, _, _, _)
ConsumeArgs(actions, ns, argv, rest) ==
    IF argv = <<>>
    THEN IF \E k \in DOMAIN rest : rest[k].nargs # "?" THEN SystemExit
         ELSE [exit |-> FALSE, ns |-> ns]
    ELSE LET tok == Head(argv)
         IN  IF tok \in OptionStrings(actions)
             THEN LET a == ActionFor(actions, tok)
                  IN  CASE a.class = "_HelpAction" -> SystemExit
                        [] a.class = "_StoreTrueAction" ->
                             ConsumeArgs(actions, Put(ns, a.dest, PyBool(TRUE)), Tail(argv), rest)
                        [] a.class = "_StoreFalseAction" ->
                             ConsumeArgs(actions, Put(ns, a.dest, PyBool(FALSE)), Tail(argv), rest)
                        [] OTHER ->
                             IF Len(argv) < 2 \/ argv[2] \in OptionStrings(actions)
                             THEN SystemExit
                             ELSE LET value == Convert(a.type, argv[2])
                                  IN  IF value.t = "error"
                                         \/ (a.choices.t # "none" /\ ~InChoices(value, a.choices))
                                      THEN SystemExit
                                      ELSE ConsumeArgs(actions, Put(ns, a.dest, value),
                                                       Tail(Tail(argv)), rest)
             ELSE IF rest = <<>> THEN SystemExit
                  ELSE LET a == Head(rest)
                           value == Convert(a.type, tok)
                       IN  IF value.t = "error" THEN SystemExit
                           ELSE ConsumeArgs(actions, Put(ns, a.dest, value), Tail(argv),
                                            Tail(rest))

\* parser.parse_args(argv): [exit |-> the call raised SystemExit, ns |-> namespace]
ParseArgs(parser, argv) ==
    ConsumeArgs(parser.actions, NamespaceDefaults(parser.actions, EmptyDict), argv,
                Positionals(parser.actions))

\* ------------------------------------------------------------------------
\* create_config_app (line-oriented backend)
\* ------------------------------------------------------------------------
\* an option tuple (label, id, arg, *rest) of the caller or of the extraction
OptionTuple(label, id, arg, rest) == [label |-> label, id |-> id, arg |-> arg, rest |-> rest]

\* the value an option keeps for a Python value; every read of it goes through str()
ValueOf(x) == IF x.t = "none" THEN None ELSE Str(x)

\* the body of "for action in parser._actions:"; r = [checkbox_options, parameter_options]
ExtractAction(r, action) ==
    IF action.dest = "help" \/ action.option_strings = <<>> THEN r
    ELSE LET opt_name == action.option_strings[1]
             help_text == action.help
             opt_id == action.dest
         IN  IF action.class = "_StoreTrueAction"
             THEN [r EXCEPT !.checkbox_options =
                      Append(@, OptionTuple(help_text, opt_id, opt_name, <<action.default>>))]
             ELSE IF Truthy(action.choices)
             THEN LET default == IF action.default.t # "none"
                                 THEN PyStr(Str(action.default)) ELSE PyNone
                  IN  [r EXCEPT !.parameter_options =
                          Append(@, OptionTuple(help_text, opt_id, opt_name,
                                                <<action.choices, default>>))]
             ELSE LET default == IF action.default.t # "none"
                                 THEN Str(action.default) ELSE ""
                      placeholder == IF default # "" THEN "default: " \o default ELSE ""
                  IN  [r EXCEPT !.parameter_options =
                          Append(@, OptionTuple(help_text, opt_id, opt_name,
                                                <<PyStr(default), PyStr(placeholder)>>))]

RECURSIVE ExtractOptions(_, _)
ExtractOptions(r, actions) ==
    IF actions = <<>> THEN r
    ELSE ExtractOptions(ExtractAction(r, Head(actions)), Tail(actions))

\* checkbox_opts.append(CheckboxOption(label, id, arg, default))
CheckboxFromTuple(item) ==
    CheckboxOption(item.label, item.id, item.arg,
                   IF Len(item.rest) = 1 THEN item.rest[1].v ELSE FALSE)

\* the body of "for item in options_to_process:"
ParameterFromTuple(item) ==
    IF Len(item.rest) >= 1 /\ item.rest[1].t \in {"list", "tuple"}
    THEN SelectOption(item.label, item.id, item.arg, Items(item.rest[1]),
                      IF Len(item.rest) > 1 THEN item.rest[2] ELSE PyNone)
    ELSE InputOption(item.label, item.id, item.arg,
                     IF Len(item.rest) > 0 THEN ValueOf(item.rest[1]) ELSE "",
                     IF Len(item.rest) > 1 THEN ValueOf(item.rest[2]) ELSE "")

\* checkbox_opts after "for item in checkbox_options:"
RECURSIVE CheckboxOpts(_)
CheckboxOpts(items) ==
    IF items = <<>> THEN <<>>
    ELSE <<CheckboxFromTuple(Head(items))>> \o CheckboxOpts(Tail(items))

\* param_opts after "for item in options_to_process:"
RECURSIVE ParamOpts(_)
ParamOpts(items) ==
    IF items = <<>> THEN <<>>
    ELSE <<ParameterFromTuple(Head(items))>> \o ParamOpts(Tail(items))

\* the option tuples create_config_app goes on with for the call `call`
OptionTuples(call) ==
    IF call.parser.t = "parser"
       /\ call.checkbox_options = <<>> /\ call.parameter_options = <<>>
    THEN ExtractOptions([checkbox_options |-> <<>>, parameter_options |-> <<>>],
                        call.parser.actions)
    ELSE [checkbox_options |-> call.checkbox_options,
          parameter_options |-> call.parameter_options]

\* the RichConfigApp that create_config_app constructs for the call `call`
BuildApp(call) ==
    LET t == OptionTuples(call)
    IN  [program |-> call.program,
         checkbox_options |-> CheckboxOpts(t.checkbox_options),
         parameter_options |-> ParamOpts(t.parameter_options),
         extra_args |-> call.extra_args,
         presets |-> call.preset_configs]

\* ------------------------------------------------------------------------
\* create_config_app (full-screen backend)
\* ------------------------------------------------------------------------
\* action.dest.replace('_', ' ').title() for the dests of the parsers below
Title(dest) ==
    CASE dest = "verbose" -> "Verbose" [] dest = "count" -> "Count"
      [] dest = "output" -> "Output" [] dest = "force" -> "Force"
      [] dest = "mode" -> "Mode" [] dest = "level" -> "Level"
      [] dest = "usage" -> "Usage" [] dest = "no_color" -> "No Color"
      [] dest = "depth" -> "Depth" [] OTHER -> dest

\* ", ".join(map(str, choices))
RECURSIVE JoinComma(_)
JoinComma(xs) ==
    IF xs = <<>> THEN ""
    ELSE IF Len(xs) = 1 THEN Str(xs[1])
    ELSE Str(xs[1]) \o ", " \o JoinComma(Tail(xs))

\* the body of "for action in parser._actions:"; r = [checkbox_options, parameter_options]
TextualExtractAction(r, action) ==
    IF action.dest = "help" \/ action.option_strings = <<>> THEN r
    ELSE LET opt_name == action.option_strings[1]
             label == IF action.help # "" THEN action.help ELSE Title(action.dest)
             opt_id == action.dest
         IN  IF action.class = "_StoreTrueAction"
             THEN [r EXCEPT !.checkbox_options =
                      Append(@, CheckboxOption(label, opt_id, opt_name, action.default.v))]
             ELSE LET default == IF action.default.t # "none"
                                 THEN Str(action.default) ELSE ""
                      placeholder == IF default # "" THEN "default: " \o default ELSE ""
                      choices_str == IF Truthy(action.choices)
                                     THEN " (choices: " \o JoinComma(Items(action.choices))
                                          \o ")"
                                     ELSE ""
                  IN  [r EXCEPT !.parameter_options =
                          Append(@, InputOption(label, opt_id, opt_name, default,
                                                placeholder \o choices_str))]

RECURSIVE TextualExtractOptions(_, _)
TextualExtractOptions(r, actions) ==
    IF actions = <<>> THEN r
    ELSE TextualExtractOptions(TextualExtractAction(r, Head(actions)), Tail(actions))

\* the body of "for item in options_to_process:": every tuple becomes an InputOption
TextualParameterFromTuple(item) ==
    InputOption(item.label, item.id, item.arg,
                IF Len(item.rest) > 0 THEN ValueOf(item.rest[1]) ELSE "",
                IF Len(item.rest) > 1 THEN ValueOf(item.rest[2]) ELSE "")

RECURSIVE TextualParamOpts(_)
TextualParamOpts(items) ==
    IF items = <<>> THEN <<>>
    ELSE <<TextualParameterFromTuple(Head(items))>> \o TextualParamOpts(Tail(items))

\* the ConfigTemplate that create_config_app of textual_preset constructs
TextualBuildApp(call) ==
    LET checkbox_opts_internal == CheckboxOpts(call.checkbox_options)
        explicit == [checkbox_options |-> checkbox_opts_internal,
                     parameter_options |-> TextualParamOpts(call.parameter_options)]
        \* if options_to_process: ... elif parser: ...
        r == IF call.parameter_options # <<>> THEN explicit
             ELSE IF call.parser.t = "parser"
             THEN TextualExtractOptions(explicit, call.parser.actions)
             ELSE explicit
    IN  [program |-> call.program,
         checkbox_options |-> r.checkbox_options,
         parameter_options |-> r.parameter_options,
         extra_args |-> call.extra_args,
         presets |-> call.preset_configs]

\* ------------------------------------------------------------------------
\* The calls of create_config_app
\* ------------------------------------------------------------------------
\* parser with -h, an optional positional, a flag, an int and a str entry
ParserA ==
    ArgumentParser(<<
        HelpAction,
        ArgparseAction("_StoreAction", <<>>, "infile", PyNone, "str", PyNone, "?", "input file"),
        ArgparseAction("_StoreTrueAction", <<"--verbose", "-v">>, "verbose", PyBool(FALSE),
                       "str", PyNone, "0", "verbose output"),
        ArgparseAction("_StoreAction", <<"--count">>, "count", PyInt(10), "int", PyNone,
                       "1", "repetitions"),
        ArgparseAction("_StoreAction", <<"--output">>, "output", PyNone, "str", PyNone,
                       "1", "output file") >>)

\* a flag that defaults to true, choices without a default, int choices
ParserB ==
    ArgumentParser(<<
        HelpAction,
        ArgparseAction("_StoreTrueAction", <<"--force">>, "force", PyBool(TRUE),
                       "str", PyNone, "0", "overwrite"),
        ArgparseAction("_StoreAction", <<"--mode">>, "mode", PyNone, "str",
                       PyList(ModeChoices), "1", "run mode"),
        ArgparseAction("_StoreAction", <<"--level">>, "level", PyInt(1), "int",
                       PyList(LevelChoices), "1", "level") >>)

\* add_help=False with a help action under another name, a store_false flag,
\* choices held in a range
ParserC ==
    ArgumentParser(<<
        ArgparseAction("_HelpAction", <<"--usage">>, "usage", PyStr(SUPPRESS), "str",
                       PyNone, "0", "show usage"),
        ArgparseAction("_StoreFalseAction", <<"--no-color">>, "no_color", PyBool(TRUE),
                       "str", PyNone, "0", "plain output"),
        ArgparseAction("_StoreAction", <<"--depth">>, "depth", PyInt(1), "int",
                       PyRange(1, 4), "1", "depth") >>)

Call(parser, cb, po, preset_configs, extra, program) ==
    [parser |-> parser, checkbox_options |-> cb, parameter_options |-> po,
     preset_configs |-> preset_configs, extra_args |-> extra, program |-> program]

ParserCalls ==
    {Call(p, <<>>, <<>>, pcs, <<>>, ProgramPlain) :
        p \in {ParserA, ParserB, ParserC}, pcs \in {<<>>, Presets}}
    \cup {Call(ParserA, <<>>, <<>>, <<>>, <<"in.txt">>, ProgramPlain)}

ExplicitCheckboxes ==
    << OptionTuple("Verbose", "verbose", "--verbose", <<>>),
       OptionTuple("Force", "force", "--force", <<PyBool(TRUE)>>) >>

ExplicitParameters ==
    << OptionTuple("Count", "count", "--count", <<PyStr("10"), PyStr("n")>>),
       OptionTuple("Mode", "mode", "--mode", <<PyList(ModeChoices), PyStr("normal")>>) >>

\* two options with the id "count"
DuplicateParameters ==
    << OptionTuple("Count", "count", "--count", <<PyStr("10")>>),
       OptionTuple("Copies", "count", "--copies", <<PyStr("3")>>) >>

\* two toggles with the id "verbose"
DuplicateCheckboxes ==
    << OptionTuple("Verbose", "verbose", "--verbose", <<>>),
       OptionTuple("Chatty", "verbose", "--chatty", <<PyBool(TRUE)>>) >>

\* eleven presets, so that the ordinal 11 names one
ManyPresets ==
    << PresetConfig("p1", "", <<"verbose">>, <<>>), PresetConfig("p2", "", <<>>, <<>>),
       PresetConfig("p3", "", <<>>, <<>>), PresetConfig("p4", "", <<>>, <<>>),
       PresetConfig("p5", "", <<>>, <<>>), PresetConfig("p6", "", <<>>, <<>>),
       PresetConfig("p7", "", <<>>, <<>>), PresetConfig("p8", "", <<>>, <<>>),
       PresetConfig("p9", "", <<>>, <<>>), PresetConfig("p10", "", <<>>, <<>>),
       PresetConfig("p11", "", <<"force">>, <<>>) >>

\* two toggles with the arg "--verbose"
SameArgCheckboxes ==
    << OptionTuple("Verbose", "verbose", "--verbose", <<>>),
       OptionTuple("Chatty", "chatty", "--verbose", <<>>) >>

ExplicitCalls ==
    { Call(NoParser, ExplicitCheckboxes, <<>>, ManyPresets, <<>>, ProgramPlain),
      Call(ParserA, SameArgCheckboxes, <<>>, <<>>, <<>>, ProgramPlain),
 Call(NoParser, ExplicitCheckboxes, ExplicitParameters, Presets, <<"--tag", "x">>,
           ProgramQuoted),
      Call(ParserA, <<OptionTuple("Verbose", "verbose", "--verbose", <<>>)>>, <<>>, <<>>,
           <<>>, ProgramPlain),
      Call(NoParser, ExplicitCheckboxes, DuplicateParameters, <<>>, <<>>, ProgramPlain),
      Call(NoParser, DuplicateCheckboxes, ExplicitParameters, Presets, <<>>, ProgramPlain) }

\* (label, id, arg, choices[, default]) tuples for one choice option
SelectChoices ==
    { <<>>, LevelChoices, <<PyStr("1"), PyStr("2")>>, ModeChoices }

SelectDefaults == { PyNone, PyInt(2), PyStr("2"), PyStr("zz"), PyStr("safe") }

SelectCalls ==
    { Call(NoParser, <<>>,
           << OptionTuple("Pick", "pick", "--pick", <<PyList(cs)>> \o rest) >>,
           <<>>, <<>>, ProgramPlain) :
        cs \in SelectChoices, rest \in {<<>>} \cup {<<d>> : d \in SelectDefaults} }

Calls == ParserCalls \cup ExplicitCalls \cup SelectCalls

\* the calls of create_config_app of textual_preset: text options only
TextualCalls ==
    ParserCalls \cup
    { Call(ParserA, <<OptionTuple("Verbose", "verbose", "--verbose", <<>>)>>, <<>>, <<>>,
           <<>>, ProgramPlain),
      Call(ParserA, <<>>,
           <<OptionTuple("Count", "count", "--count", <<PyStr("10"), PyStr("n")>>)>>,
           Presets, <<>>, ProgramPlain),
      Call(ParserB, ExplicitCheckboxes,
           <<OptionTuple("Count", "count", "--count", <<PyStr("10"), PyStr("n")>>)>>,
           <<>>, <<>>, ProgramPlain),
      Call(NoParser, ExplicitCheckboxes, <<>>, Presets, <<"--tag", "x">>, ProgramQuoted) }

\* ------------------------------------------------------------------------
\* RichConfigApp.run and the rest of create_config_app
\* ------------------------------------------------------------------------
\* the loop over self.presets.items() that fills the preset table
RECURSIVE PresetTable(_, _)
PresetTable(s, ps) ==
    IF ps = <<>> THEN s
    ELSE LET after == GeneratePresetCommand(s, Head(ps).name).s
         IN  \* the row of this preset is complete before the next one is rendered
             IF after.selected_preset = Head(ps).name
             THEN PresetTable(after, Tail(ps)) ELSE PresetTable(after, Tail(ps))

\* replies at the preset prompt, as character lists
PresetReplies ==
    { <<>>, <<"0">>, <<"1">>, <<"2">>, <<"4">>, <<"x">>,
      <<"1", "1">>, <<"2", "2">>, <<"4", "4">>, <<"0", "0">>, <<"1", "2">> }

\* str.isdigit()
IsDigit(choice) == choice # <<>> /\ \A k \in DOMAIN choice : IsInt(choice[k])

\* int(choice) for a string of digits
RECURSIVE IntOfDigits(_, _)
IntOfDigits(choice, acc) ==
    IF choice = <<>> THEN acc
    ELSE IntOfDigits(Tail(choice), 10 * acc + ParseInt(Head(choice)))

\* variant: a selected preset does not set _preset_selected
SelectByIndexEditing(s, preset_idx, execute) ==
    LET preset_name == presets[preset_idx + 1].name
        a == ApplyPreset(s, preset_name)
    IN  [s |-> [a.s EXCEPT !.selected_preset = preset_name],
         out |-> <<Warning(IF execute THEN "preset_run" ELSE "preset_applied",
                           preset_name, None, None, None)>>,
         preset_selected |-> FALSE,
         execution_requested |-> execute]

\* the branches that select a preset
SelectByIndex(s, preset_idx, execute) ==
    LET preset_name == presets[preset_idx + 1].name
        a == ApplyPreset(s, preset_name)
    IN  [s |-> [a.s EXCEPT !.selected_preset = preset_name],
         out |-> <<Warning(IF execute THEN "preset_run" ELSE "preset_applied",
                           preset_name, None, None, None)>>,
         preset_selected |-> TRUE,
         execution_requested |-> execute]

SkipPreset(s, kind) ==
    [s |-> s, out |-> <<Warning(kind, None, None, None, None)>>,
     preset_selected |-> FALSE, execution_requested |-> FALSE]

\* RichConfigApp._display_presets for a non-empty preset dict; reply = the
\* line typed at the prompt ("" takes the prompt's default "1")
DisplayPresets(s0, reply) ==
    LET s == PresetTable(s0, presets)
        choice == IF reply = <<>> THEN <<"1">> ELSE reply
    IN  IF Len(choice) = 2 /\ choice[1] = choice[2] /\ IsDigit(choice)
        THEN LET preset_idx == ParseInt(choice[1]) - 1
             IN  IF 0 <= preset_idx /\ preset_idx < Len(presets)
                 THEN SelectByIndex(s, preset_idx, TRUE)
                 ELSE SkipPreset(s, "invalid_preset")
        ELSE IF IsDigit(choice)
        THEN LET preset_idx == IntOfDigits(choice, 0) - 1
             IN  IF choice = <<"0">> THEN SkipPreset(s, "skip")
                 ELSE IF 0 <= preset_idx /\ preset_idx < Len(presets)
                 THEN SelectByIndex(s, preset_idx, FALSE)
                 ELSE SkipPreset(s, "invalid_preset")
        ELSE SkipPreset(s, "invalid_format")

\* list(d.keys()) of a dict filled in the order of opts: each arg once, in
\* the order of its first insertion
RECURSIVE Keys(_, _)
Keys(opts, seen) ==
    IF opts = <<>> THEN <<>>
    ELSE IF Head(opts).arg \in seen THEN Keys(Tail(opts), seen)
    ELSE <<Head(opts).arg>> \o Keys(Tail(opts), seen \cup {Head(opts).arg})

\* for arg, enabled in result['options'].items(): if enabled: cmd_args.append(arg)
RECURSIVE ReplayOptions(_, _, _)
ReplayOptions(cmd_args, keys, options) ==
    IF keys = <<>> THEN cmd_args
    ELSE ReplayOptions(IF options[Head(keys)] THEN Append(cmd_args, Head(keys))
                       ELSE cmd_args,
                       Tail(keys), options)

\* for arg, value in result['inputs'].items(): if str_value: cmd_args += [arg, str_value]
RECURSIVE ReplayInputs(_, _, _)
ReplayInputs(cmd_args, keys, inputs) ==
    IF keys = <<>> THEN cmd_args
    ELSE LET value == inputs[Head(keys)]
             str_value == IF value # None THEN value ELSE ""
         IN  ReplayInputs(IF str_value # "" THEN cmd_args \o <<Head(keys), str_value>>
                          ELSE cmd_args,
                          Tail(keys), inputs)

\* cmd_args of create_config_app for the collected result
Replay(res) ==
    ReplayInputs(ReplayOptions(<<>>, Keys(checkbox_options, {}), res.options),
                 Keys(parameter_options, {}), res.inputs)
    \o extra_args

\* the end of run() and of create_config_app for the form state s:
\* collect, replay and parse
Finish(s) ==
    LET res == CollectParameters(s)
    IN  IF call_args.parser.t = "parser"
        THEN LET parsed == ParseArgs(call_args.parser, Replay(res))
             IN  IF parsed.exit
                 THEN [result |-> res, args |-> None, pc |-> "SystemExit"]
                 ELSE [result |-> res, args |-> parsed.ns, pc |-> "done"]
        ELSE [result |-> res, args |-> None, pc |-> "done"]

InitRun ==
    /\ backend \in {"rich", "textual"}
    /\ call_args \in (IF backend = "rich" THEN Calls ELSE TextualCalls)
    /\ pc = "call"
    /\ cfg = None
    /\ checkbox_states = EmptyDict
    /\ parameter_values = EmptyDict
    /\ selected_preset = None
    /\ preset_selected = FALSE
    /\ execution_requested = FALSE
    /\ console = <<>>
    /\ result = None
    /\ args = None
    /\ lastOp = Op("init", <<>>)
    /\ w_selected = {}
    /\ w_value = EmptyDict
    /\ pressed_index = 0
    /\ command_label = ""
    /\ mounted = FALSE
    /\ pending = FALSE
    /\ template_checkbox_states = EmptyDict
    /\ template_input_values = EmptyDict
    /\ on_run_callback = FALSE
    /\ queue = <<>>
    /\ exit_requested = FALSE
    /\ closed = FALSE
    /\ callbacks = <<>>

\* one step of the run: the form state, the printed output and the run variables
SetRun(s, out, selected, requested, fin, op) ==
    /\ checkbox_states' = s.checkbox_states
    /\ parameter_values' = s.parameter_values
    /\ selected_preset' = s.selected_preset
    /\ console' = out
    /\ preset_selected' = selected
    /\ execution_requested' = requested
    /\ result' = fin.result
    /\ args' = fin.args
    /\ pc' = fin.pc
    /\ lastOp' = op
    /\ UNCHANGED <<backend, cfg, call_args, textualVars>>

Continue(next_pc) == [result |-> None, args |-> None, pc |-> next_pc]

\* create_config_app up to the construction of the RichConfigApp
CreateConfigApp ==
    /\ backend = "rich"
    /\ pc = "call"
    /\ cfg' = BuildApp(call_args)
    /\ checkbox_states' = DefaultsDict(cfg'.checkbox_options, EmptyDict)
    /\ parameter_values' = DefaultsDict(cfg'.parameter_options, EmptyDict)
    /\ pc' = "presets"
    /\ lastOp' = Op("construct", <<>>)
    /\ UNCHANGED <<backend, call_args, selected_preset, console, preset_selected,
                   execution_requested, result, args, textualVars>>

\* create_config_app of textual_preset: the ConfigTemplate is returned, not run
TextualCreateConfigApp ==
    /\ backend = "textual"
    /\ pc = "call"
    /\ cfg' = TextualBuildApp(call_args)
    /\ pc' = "built"
    /\ lastOp' = Op("construct", <<>>)
    /\ UNCHANGED <<backend, call_args, richVars, preset_selected, execution_requested,
                   result, args, textualVars>>

\* run() from its start to the answer at the preset prompt, and on to the
\* next prompt or to the end when the answer selects a preset
RunDisplayPresets ==
    /\ pc = "presets"
    /\ IF presets = <<>>
       THEN SetRun(RichState, <<>>, preset_selected, FALSE, Continue("checkboxes"),
                   Op("presets", <<>>))
       ELSE \E reply \in PresetReplies :
              LET r == DisplayPresets(RichState, reply)
              IN  SetRun(r.s, r.out, r.preset_selected, r.execution_requested,
                         IF r.execution_requested \/ r.preset_selected
                         THEN Finish(r.s) ELSE Continue("checkboxes"),
                         Op("presets", reply))

\* the answer at the toggle prompt
RunCheckboxOptions ==
    /\ pc = "checkboxes"
    /\ \E choice \in (IF checkbox_options = <<>> THEN {<<>>} ELSE TokenSeqs(MaxTokens)) :
          LET r == DisplayCheckboxOptions(RichState, choice)
          IN  SetRun(r.s, r.out, preset_selected, execution_requested,
                     Continue("parameters"), Op("checkboxes", <<>>))

\* a non-empty line at the parameter prompt
RunParameterLine ==
    /\ pc = "parameters"
    /\ parameter_options # <<>>
    /\ \E idx_str \in IndexTokens, value_provided \in BOOLEAN :
       \E value \in (IF value_provided THEN LineValues ELSE {""}) :
       \E reply \in (IF value_provided THEN {""} ELSE ChoiceReplies(idx_str)) :
          LET r == ParameterLine(RichState, idx_str, value_provided, value, reply)
          IN  SetRun(r.s, r.out, preset_selected, execution_requested,
                     Continue("parameters"), Op("line", <<>>))

\* the empty line that ends the parameter step, and the rest of the call
RunParametersEnd ==
    /\ pc = "parameters"
    /\ SetRun(RichState, DisplayCommandPreview(RichState).out, preset_selected,
              execution_requested, Finish(RichState), Op("finish", <<>>))

NextRun ==
    \/ CreateConfigApp
    \/ TextualCreateConfigApp
    \/ RunDisplayPresets
    \/ RunCheckboxOptions
    \/ RunParameterLine
    \/ RunParametersEnd

SpecRun == InitRun /\ [][NextRun]_vars

\* ------------------------------------------------------------------------
\* Properties
\* ------------------------------------------------------------------------
IsApplied(b) ==
    backend = b /\ lastOp.op = "apply" /\ lastOp.arg[1] \in PresetNames

\* C1: for every preset P and every reachable form state, applying P a
\* second time changes nothing: apply(P, apply(P, s)) = apply(P, s), in the
\* toggle map, the value map and the selected-preset name (both backends).
C1_ApplyIdempotent ==
    \A p \in PresetNames :
        /\ backend = "rich" =>
              ApplyPreset(ApplyPreset(RichState, p).s, p).s = ApplyPreset(RichState, p).s
        /\ backend = "textual" =>
              TextualApplyPreset(TextualApplyPreset(TextualState, p), p)
                 = TextualApplyPreset(TextualState, p)

\* a preset has been applied over a state that differs from the defaults, and
\* applying it again is a no-op
C1_Witness ==
    /\ IsApplied("rich")
    /\ lastOp.arg[1] = "safe"
    /\ RichState # ApplyPreset(RichInitState, "safe").s
    /\ ApplyPreset(RichState, "safe").s = RichState

\* C2: apply(P1) followed by apply(P2) gives the form state of apply(P2)
\* alone; nothing written by P1 survives.
C2_NoResidue ==
    backend = "rich" =>
        \A p1, p2 \in PresetNames :
            ApplyPreset(ApplyPreset(RichState, p1).s, p2).s = ApplyPreset(RichState, p2).s

\* C3: the value stored for a choice option is always one of its choices.
C3_ChoiceClosure ==
    backend = "rich" =>
        \A i \in DOMAIN parameter_options :
            parameter_options[i].kind = "select" =>
                /\ parameter_options[i].id \in DOMAIN parameter_values
                /\ parameter_values[parameter_options[i].id]
                      \in Elems(parameter_options[i].choices)

\* a preset carrying a value outside the choices has just been applied
C3_Witness ==
    /\ IsApplied("rich")
    /\ lastOp.arg[1] = "odd"
    /\ "mode" \in DOMAIN parameter_values
    /\ \E k \in DOMAIN console : console[k].id = "mode" /\ console[k].value = "turbo"

\* C4: after apply(preset) the true toggles are exactly the preset's
\* checkbox ids that name declared toggles, and the form state has entries
\* for declared options only.
C4_ExactToggles ==
    IsApplied("rich") =>
        LET preset == PresetNamed(lastOp.arg[1])
        IN  /\ {id \in DOMAIN checkbox_states : checkbox_states[id]}
                  = Elems(preset.checkbox_options) \cap CheckboxIds
            /\ DOMAIN checkbox_states \subseteq CheckboxIds
            /\ DOMAIN parameter_values \subseteq ParameterIds

ItemIds(items) == {items[k][1] : k \in DOMAIN items}

\* C5: after apply(preset), in either backend, a text/choice option the
\* preset does not mention holds its own declared default.
C5_UnmentionedDefault ==
    \A i \in DOMAIN parameter_options :
        LET opt == parameter_options[i]
        IN  /\ IsApplied("rich") /\ opt.id \notin ItemIds(PresetNamed(lastOp.arg[1]).input_values)
                 => parameter_values[opt.id] = opt.default
            /\ IsApplied("textual") /\ opt.id \notin ItemIds(PresetNamed(lastOp.arg[1]).input_values)
                 => w_value[opt.id] = opt.default

\* C6: after apply(preset), each (id, v) of the preset's value map that
\* names a text option is stored verbatim; one that names a choice option is
\* stored when v is one of the choices, and otherwise the option holds its
\* own default and a warning naming the preset, the id, the rejected value
\* and the retained default has been printed.
C6_PresetValues ==
    /\ IsApplied("rich") =>
          LET items == PresetNamed(lastOp.arg[1]).input_values
          IN  \A k \in DOMAIN items :
                LET id == items[k][1]
                    v == items[k][2]
                    opt == FindParameter(id)
                IN  id \in ParameterIds =>
                      IF opt.kind = "input" THEN parameter_values[id] = v
                      ELSE IF v \in Elems(opt.choices) THEN parameter_values[id] = v
                      ELSE /\ parameter_values[id] = opt.default
                           /\ \E w \in DOMAIN console :
                                 console[w] = Warning("invalid_preset_value", lastOp.arg[1],
                                                      id, v, opt.default)
    /\ IsApplied("textual") =>
          LET items == PresetNamed(lastOp.arg[1]).input_values
          IN  \A k \in DOMAIN items :
                items[k][1] \in ParameterIds => w_value[items[k][1]] = items[k][2]

\* the preset with a rejected choice value and a text value has been applied
C6_Witness ==
    /\ IsApplied("rich")
    /\ lastOp.arg[1] = "odd"
    /\ "mode" \in DOMAIN parameter_values
    /\ parameter_values["mode"] = "normal"
    /\ parameter_values["count"] = "5"
    /\ console = <<Warning("invalid_preset_value", "odd", "mode", "turbo", "normal")>>

\* C7: a line "<index> <value>" that names a choice option with a value
\* outside its choices changes no toggle and no value entry, and prints an
\* invalid-choice diagnostic for that option and value.
C7_InvalidChoiceRejected ==
    backend = "rich" =>
        \A i \in DOMAIN parameter_options, value \in LineValues :
            LET opt == parameter_options[i]
                r == ParameterLine(RichState, IntStr(i), TRUE, value, "")
            IN  (opt.kind = "select" /\ value \notin Elems(opt.choices)) =>
                    /\ r.s = RichState
                    /\ r.out = <<Warning("invalid_choice", None, opt.id, value, None)>>

\* an invalid value was typed for a choice option that held a non-default value
C7_Witness ==
    /\ backend = "rich"
    /\ lastOp.op = "line"
    /\ console = <<Warning("invalid_choice", None, "mode", "turbo", None)>>
    /\ parameter_values["mode"] = "fast"

Count(seq, tok) == Cardinality({k \in DOMAIN seq : seq[k] = tok})

\* C8: the rendered argument vector contains a toggle's arg (once) exactly
\* when the toggle's current value is true, in both backends.
C8_ToggleRendered ==
    \A i \in DOMAIN checkbox_options :
        LET opt == checkbox_options[i]
        IN  /\ backend = "rich" =>
                  Count(ArgVector(RichState), opt.arg)
                     = (IF Get(checkbox_states, opt.id, FALSE) THEN 1 ELSE 0)
            /\ backend = "textual" =>
                  Count(TextualArgVector(TextualState), opt.arg)
                     = (IF opt.id \in w_selected THEN 1 ELSE 0)

\* a toggle whose default is true has been switched off, another one switched on
C8_Witness ==
    /\ backend = "rich"
    /\ lastOp.op = "checkboxes"
    /\ "force" \in DOMAIN checkbox_states
    /\ ~checkbox_states["force"]
    /\ checkbox_states["verbose"]

HasPair(vec, arg, value) ==
    \E k \in 1..(Len(vec) - 1) : vec[k] = arg /\ vec[k + 1] = value

\* C9: the rendered argument vector contains [arg, value] for a text/choice
\* option exactly when its current value is non-empty; for an empty value
\* the arg does not occur at all (both backends).
C9_ValueRendered ==
    \A i \in DOMAIN parameter_options :
        LET opt == parameter_options[i]
        IN  /\ backend = "rich" =>
                  LET value == parameter_values[opt.id]
                  IN  /\ HasPair(ArgVector(RichState), opt.arg, value) <=> value # ""
                      /\ Count(ArgVector(RichState), opt.arg) = (IF value # "" THEN 1 ELSE 0)
            /\ backend = "textual" =>
                  LET value == w_value[opt.id]
                  IN  /\ HasPair(TextualArgVector(TextualState), opt.arg, value) <=> value # ""
                      /\ Count(TextualArgVector(TextualState), opt.arg)
                            = (IF value # "" THEN 1 ELSE 0)

\* a text option has been cleared while a choice option keeps its value
C9_Witness ==
    /\ backend = "rich"
    /\ lastOp.op = "line"
    /\ parameter_values["count"] = ""
    /\ "mode" \in DOMAIN parameter_values
    /\ parameter_values["mode"] = "safe"

\* the args of the toggles that are on, in declaration order
ToggleSegment(cs) ==
    LET on == SelectSeq(checkbox_options, LAMBDA o : Get(cs, o.id, FALSE))
    IN  [k \in 1..Len(on) |-> on[k].arg]

\* the [arg, value] pairs of the non-empty parameters, in declaration order
ValueSegment(pv) ==
    LET set == SelectSeq(parameter_options, LAMBDA o : pv[o.id] # "")
    IN  [k \in 1..(2 * Len(set)) |->
            IF k % 2 = 1 THEN set[(k + 1) \div 2].arg ELSE pv[set[k \div 2].id]]

\* " " + token for every token
RECURSIVE Spaced(_)
Spaced(tokens) == IF tokens = <<>> THEN "" ELSE " " \o Head(tokens) \o Spaced(Tail(tokens))

\* C10: the argument vector is the on-toggles' args in declaration order,
\* then the [arg, value] pairs of the non-empty text/choice options in
\* declaration order, then the extra arguments; the preview is "python", the
\* program path and the vector joined by single spaces.  With one toggle
\* --verbose and one text option --count (default "10") the vector is
\* [--count, 10] at the defaults, [--verbose, --count, 10] with the toggle on
\* and [--verbose] with the toggle on and count empty.
C10_RenderOrder ==
    backend = "rich" =>
        /\ ArgVector(RichState)
              = ToggleSegment(checkbox_states) \o ValueSegment(parameter_values) \o extra_args
        /\ GenerateCommandPreview(RichState)
              = "python " \o program_path \o Spaced(ArgVector(RichState))
        /\ cfg = RichFormSmall =>
              /\ RichState = RichInitState => ArgVector(RichState) = <<"--count", "10">>
              /\ Get(checkbox_states, "verbose", FALSE) /\ parameter_values["count"] = "10"
                    => ArgVector(RichState) = <<"--verbose", "--count", "10">>
              /\ Get(checkbox_states, "verbose", FALSE) /\ parameter_values["count"] = ""
                    => ArgVector(RichState) = <<"--verbose">>

\* the toggle was set and count was then cleared on the two-option form
C10_Witness ==
    /\ backend = "rich"
    /\ cfg = RichFormSmall
    /\ lastOp.op = "line"
    /\ checkbox_states["verbose"]
    /\ parameter_values["count"] = ""
    /\ ArgVector(RichState) = <<"--verbose">>

\* C11: the collected result has, for every toggle o, options[o.arg] equal
\* to o's current boolean and, for every text/choice option p, an entry
\* inputs[p.arg] equal to p's current string value, the empty string included.
C11_CollectFaithful ==
    lastOp.op = "collect" =>
        /\ backend = "rich" =>
              /\ \A i \in DOMAIN checkbox_options :
                    LET o == checkbox_options[i]
                    IN  o.arg \in DOMAIN result.options
                        /\ result.options[o.arg] = Get(checkbox_states, o.id, FALSE)
              /\ \A i \in DOMAIN parameter_options :
                    LET o == parameter_options[i]
                    IN  o.arg \in DOMAIN result.inputs
                        /\ result.inputs[o.arg] = parameter_values[o.id]
        /\ backend = "textual" =>
              /\ \A i \in DOMAIN checkbox_options :
                    LET o == checkbox_options[i]
                    IN  o.arg \in DOMAIN result.options
                        /\ result.options[o.arg] = (o.id \in w_selected)
              /\ \A i \in DOMAIN parameter_options :
                    LET o == parameter_options[i]
                    IN  o.arg \in DOMAIN result.inputs
                        /\ result.inputs[o.arg] = w_value[o.id]

\* C12: showing the command preview changes no toggle, no value and not the
\* selected preset, and two previews in a row print the same string.
C12_RenderPure ==
    [][(backend = "rich" /\ lastOp'.op = "preview") =>
          /\ RichState' = RichState
          /\ console' = <<Warning("preview", None, None,
                                  GenerateCommandPreview(RichState), None)>>
          /\ (lastOp.op = "preview" => console' = console)]_vars

\* the preview has been shown for an edited form with a selected preset
C12_Witness ==
    /\ backend = "rich"
    /\ lastOp.op = "preview"
    /\ selected_preset = "safe"
    /\ parameter_values["count"] = ""
    /\ console = <<Warning("preview", None, None, GenerateCommandPreview(RichState), None)>>

\* the options of the form were extracted from the parser of the call
Extracted ==
    /\ call_args.parser.t = "parser"
    /\ call_args.checkbox_options = <<>>
    /\ call_args.parameter_options = <<>>

\* create_config_app has come to its end, by return or by SystemExit
Finished == pc \in {"done", "SystemExit"}

\* the form state holds the declared default of every option
AtDefaults ==
    /\ checkbox_states = DefaultsDict(checkbox_options, EmptyDict)
    /\ parameter_values = DefaultsDict(parameter_options, EmptyDict)

\* C13: for a form extracted from a parser and left at its defaults, the
\* replayed and re-parsed result gives every entry of the parser its
\* declared default.
C13_DefaultsRoundTrip ==
    (Finished /\ Extracted /\ AtDefaults) =>
        /\ pc = "done"
        /\ \A i \in DOMAIN call_args.parser.actions :
              LET a == call_args.parser.actions[i]
              IN  a.dest \in DOMAIN NamespaceDefaults(call_args.parser.actions, EmptyDict) =>
                     /\ a.dest \in DOMAIN args
                     /\ args[a.dest].t = a.default.t
                     /\ args[a.dest].v = a.default.v

\* C14: for a form extracted from a parser, the replayed and re-parsed
\* result agrees with the form state: every toggle parses to its current
\* boolean and every non-empty value parses to that value.
C14_StateRoundTrip ==
    (Finished /\ Extracted) =>
        /\ pc = "done"
        /\ \A k \in DOMAIN checkbox_options :
              LET o == checkbox_options[k]
              IN  /\ o.id \in DOMAIN args
                  /\ args[o.id].t = "bool"
                  /\ args[o.id].v = Get(checkbox_states, o.id, FALSE)
        /\ \A k \in DOMAIN parameter_options :
              LET o == parameter_options[k]
                  value == parameter_values[o.id]
              IN  (value # None /\ value # "") =>
                     /\ o.id \in DOMAIN args
                     /\ Str(args[o.id]) = value

\* C15: when presets are configured and the user selects none, the result
\* of run() has preset = None; a preset is named only after a selection.
C15_PresetOnlyIfSelected ==
    (Finished /\ presets # <<>>) =>
        /\ ~preset_selected => result.preset = None
        /\ result.preset # None => preset_selected

\* the entries of the parser that carry an invocation token and are not a
\* show-help entry
FlagEntries ==
    SelectSeq(call_args.parser.actions,
              LAMBDA a : a.option_strings # <<>> /\ a.class # "_HelpAction")

\* C16: every flag entry without a value becomes a toggle with the declared
\* boolean default, every value entry with a non-empty choice container a
\* choice option with the choices as strings in order, every other value
\* entry a text option with the declared default as a string or "".
C16_Classification ==
    (pc # "call" /\ Extracted) =>
        \A i \in DOMAIN FlagEntries :
            LET a == FlagEntries[i]
            IN  IF a.class \in {"_StoreTrueAction", "_StoreFalseAction"}
                THEN \E k \in DOMAIN checkbox_options :
                        /\ checkbox_options[k].id = a.dest
                        /\ checkbox_options[k].default = a.default.v
                ELSE IF Truthy(a.choices)
                THEN \E k \in DOMAIN parameter_options :
                        /\ parameter_options[k].id = a.dest
                        /\ parameter_options[k].kind = "select"
                        /\ parameter_options[k].choices = MapStr(Items(a.choices))
                ELSE \E k \in DOMAIN parameter_options :
                        /\ parameter_options[k].id = a.dest
                        /\ parameter_options[k].kind = "input"
                        /\ parameter_options[k].default =
                              (IF a.default.t = "none" THEN "" ELSE Str(a.default))

RECURSIVE IdsOf(_)
IdsOf(opts) == IF opts = <<>> THEN <<>> ELSE <<Head(opts).id>> \o IdsOf(Tail(opts))

RECURSIVE DestsOf(_)
DestsOf(actions) ==
    IF actions = <<>> THEN <<>> ELSE <<Head(actions).dest>> \o DestsOf(Tail(actions))

\* C17: the extraction yields exactly one option for every flag entry that
\* is not a show-help entry and none for any other entry, and toggles and
\* valued options each keep the order of declaration.
C17_OneOptionPerEntry ==
    (pc # "call" /\ Extracted) =>
        LET ids == IdsOf(checkbox_options) \o IdsOf(parameter_options)
            dests == DestsOf(FlagEntries)
        IN  /\ Len(ids) = Len(dests)
            /\ \A i \in DOMAIN dests : Count(ids, dests[i]) = 1
            /\ IdsOf(checkbox_options) =
                  SelectSeq(dests, LAMBDA d : d \in Elems(IdsOf(checkbox_options)))
            /\ IdsOf(parameter_options) =
                  SelectSeq(dests, LAMBDA d : d \in Elems(IdsOf(parameter_options)))

\* C18: every constructed form has pairwise distinct option ids.
C18_DistinctIds ==
    pc # "call" =>
        LET ids == IdsOf(checkbox_options) \o IdsOf(parameter_options)
        IN  \A i, j \in DOMAIN ids : ids[i] = ids[j] => i = j

\* the (label, id, arg, choices[, default]) tuples of the call, by position
IsSelectTuple(item) == Len(item.rest) >= 1 /\ item.rest[1].t = "list"

\* C19: a choice option built from choices C and declared default d has
\* default str(d) if that is one of the stringified C, else the first of C,
\* else none; with non-empty C the default is one of the choices.
C19_SelectDefault ==
    (pc # "call" /\ call_args.parameter_options # <<>>) =>
        \A k \in DOMAIN call_args.parameter_options :
            LET item == call_args.parameter_options[k]
                o == parameter_options[k]
                C == MapStr(Items(item.rest[1]))
                declared == Len(item.rest) > 1 /\ item.rest[2].t # "none"
                hit == declared /\ Str(item.rest[2]) \in Elems(C)
            IN  IsSelectTuple(item) =>
                   /\ o.kind = "select"
                   /\ o.choices = C
                   /\ hit => o.default = Str(item.rest[2])
                   /\ (~hit /\ C # <<>>) => o.default = C[1]
                   /\ (~hit /\ C = <<>>) => o.default = None
                   /\ C # <<>> => o.default \in Elems(o.choices)

\* a choice option has been built from integer choices and a default that
\* is a choice only after str(), and another from a default outside the choices
C19_Witness ==
    /\ pc # "call"
    /\ call_args.parameter_options # <<>>
    /\ LET item == call_args.parameter_options[1]
       IN  /\ IsSelectTuple(item)
           /\ item.rest[1].v = LevelChoices
           /\ Len(item.rest) > 1
           /\ item.rest[2].t = "int"
           /\ parameter_options[1].default = "2"

BadToggleReply(choice) ==
    \E k \in DOMAIN choice :
        \/ ~IsInt(choice[k])
        \/ ParseInt(choice[k]) \notin DOMAIN checkbox_options

BadIndex(idx_str) ==
    ~IsInt(idx_str) \/ ParseInt(idx_str) \notin DOMAIN parameter_options

Diagnostics == {"invalid_format", "invalid_index", "index_out_of_range", "invalid_choice"}

\* C20: a reply at the toggle prompt or a line at the parameter prompt that
\* holds an out-of-range or non-integer index changes no form-state entry
\* and prints a diagnostic.
C20_BadIndexRejected ==
    backend = "rich" =>
        /\ checkbox_options # <<>> =>
              \A choice \in TokenSeqs(MaxTokens) :
                  BadToggleReply(choice) =>
                      LET r == DisplayCheckboxOptions(RichState, choice)
                      IN  /\ r.s = RichState
                          /\ \E k \in DOMAIN r.out : r.out[k].kind \in Diagnostics
        /\ \A idx_str \in IndexTokens, value_provided \in BOOLEAN :
              BadIndex(idx_str) =>
                  LET r == ParameterLine(RichState, idx_str, value_provided,
                                         IF value_provided THEN "5" ELSE "", "")
                  IN  /\ r.s = RichState
                      /\ \E k \in DOMAIN r.out : r.out[k].kind \in Diagnostics

\* the argument vector replayed from the result is rejected by the parser
ReplayFails ==
    /\ call_args.parser.t = "parser"
    /\ ParseArgs(call_args.parser, Replay(result)).exit

\* ------------------------------------------------------------------------
\* A session of the full-screen application: the messages the user's key
\* presses and clicks post, and the handlers that take them in order.
\* App.exit() only asks for the exit: the session closes when that request
\* is served, at any later point, and what is still queued then is dropped.
\* ------------------------------------------------------------------------
InitSession ==
    /\ backend = "textual"
    /\ cfg = TextualFormSmall
    /\ checkbox_states = EmptyDict
    /\ parameter_values = EmptyDict
    /\ w_selected = TextualInitState.selected
    /\ w_value = TextualInitState.value
    /\ selected_preset = None
    /\ console = <<>>
    /\ pressed_index = 0
    /\ command_label = ""
    /\ mounted = FALSE
    /\ pending = FALSE
    /\ lastOp = Op("init", <<>>)
    /\ result = None
    /\ call_args = None
    /\ pc = "api"
    /\ preset_selected = FALSE
    /\ execution_requested = FALSE
    /\ args = None
    /\ template_checkbox_states = EmptyDict
    /\ template_input_values = EmptyDict
    /\ on_run_callback \in BOOLEAN
    /\ queue = <<>>
    /\ exit_requested = FALSE
    /\ closed = FALSE
    /\ callbacks = <<>>

\* the user can act while the screen is up; MaxQueue caps the run requests
CanPress ==
    /\ backend = "textual"
    /\ mounted
    /\ ~closed
    /\ Len(queue) + Len(callbacks) < MaxQueue

Post(message) ==
    /\ queue' = Append(queue, message)
    /\ lastOp' = Op("press", <<message.op>>)
    /\ UNCHANGED <<backend, cfg, richVars, w_selected, w_value, command_label, mounted,
                   pending, result, runVars, template_checkbox_states,
                   template_input_values, on_run_callback, exit_requested, closed,
                   callbacks>>

\* the run button (Button.Pressed, id run-btn) or the key bound to action_run
PressRun ==
    /\ CanPress
    /\ \E via \in {"run-btn", "r"} : Post(Op("run", <<via>>))
    /\ UNCHANGED pressed_index

\* the quit button (id quit-btn) or the key bound to quit
PressQuit ==
    /\ CanPress
    /\ \E via \in {"quit-btn", "q"} : Post(Op("quit", <<via>>))
    /\ UNCHANGED pressed_index

\* a double click on the k-th radio button: the button is pressed, the
\* click with click_count = 2 is queued
DoubleClick ==
    /\ CanPress
    /\ \E k \in DOMAIN presets :
          /\ pressed_index' = k
          /\ Post(Op("double_click", <<>>))

\* ConfigTemplate.action_run on the widgets s
ActionRun(s, op) ==
    LET params == TextualCollectParameters(s, pressed_index)
    IN  /\ exit_requested' = TRUE
        /\ callbacks' = IF on_run_callback THEN Append(callbacks, params) ELSE callbacks
        /\ result' = params
        /\ queue' = Tail(queue)
        /\ lastOp' = op
        /\ UNCHANGED <<backend, cfg, richVars, pressed_index, mounted, runVars,
                       template_checkbox_states, template_input_values,
                       on_run_callback, closed>>

Dispatch(name) ==
    /\ backend = "textual"
    /\ ~closed
    /\ queue # <<>>
    /\ Head(queue).op = name

\* on_button_pressed with run-btn, or the binding r: action_run
HandleRun ==
    /\ Dispatch("run")
    /\ ActionRun(TextualState, Op("run", <<>>))
    /\ UNCHANGED <<w_selected, w_value, command_label, pending>>

\* on_button_pressed with quit-btn, or the binding q: exit()
HandleQuit ==
    /\ Dispatch("quit")
    /\ exit_requested' = TRUE
    /\ queue' = Tail(queue)
    /\ lastOp' = Op("quit", <<>>)
    /\ result' = None
    /\ UNCHANGED <<backend, cfg, richVars, w_selected, w_value, pressed_index,
                   command_label, mounted, pending, runVars, template_checkbox_states,
                   template_input_values, on_run_callback, closed, callbacks>>

\* on_radio_set_clicked with click_count = 2: _apply_preset, then action_run
HandleDoubleClick ==
    /\ Dispatch("double_click")
    /\ pressed_index \in DOMAIN presets
    /\ LET s == TextualApplyPreset(TextualState, presets[pressed_index].name)
       IN  /\ w_selected' = s.selected
           /\ w_value' = s.value
           /\ command_label' = UpdateCommandPreview(s)
           /\ pending' = TRUE
           /\ ActionRun(s, Op("double_click", <<>>))

\* the exit request is served: the screen goes away with what is queued
ExitSession ==
    /\ backend = "textual"
    /\ exit_requested
    /\ ~closed
    /\ closed' = TRUE
    /\ queue' = <<>>
    /\ lastOp' = Op("exit", <<>>)
    /\ UNCHANGED <<backend, cfg, richVars, w_selected, w_value, pressed_index,
                   command_label, mounted, pending, result, runVars,
                   template_checkbox_states, template_input_values, on_run_callback,
                   exit_requested, callbacks>>

NextSession ==
    \/ OnMount
    \/ UserToggle
    \/ OnWidgetChanged
    \/ TimerTick
    \/ OnRadioSetChanged
    \/ PressRun
    \/ PressQuit
    \/ DoubleClick
    \/ HandleRun
    \/ HandleQuit
    \/ HandleDoubleClick
    \/ ExitSession

SpecSession == InitSession /\ [][NextSession]_vars

\* The screen while it is up: the interval timer set in on_mount keeps
\* firing as long as the application runs.
NextLive ==
    \/ OnMount
    \/ UserToggle
    \/ UserType
    \/ OnWidgetChanged
    \/ TimerTick
    \/ OnRadioSetChanged

SpecLive == InitSession /\ [][NextLive]_vars /\ WF_vars(TimerTick)

\* ------------------------------------------------------------------------
\* Properties of the run flow and of the session
\* ------------------------------------------------------------------------
\* C21: a replayed argument vector that the parser rejects does not
\* terminate the program: create_config_app returns and the form state is
\* as it was collected.
C21_ReparseFailureSurvives ==
    (Finished /\ ReplayFails) =>
        /\ pc = "done"
        /\ result = CollectParameters(RichState)

\* C22: Enter alone at the preset prompt applies no preset, leaves the form
\* at the declared defaults and leads to the toggle-editing step.
C22_EnterSkipsPresets ==
    (pc # "call" /\ lastOp.op = "presets" /\ presets # <<>> /\ lastOp.arg = <<>>) =>
        /\ ~preset_selected
        /\ AtDefaults
        /\ pc = "checkboxes"

\* C24: _generate_preset_command(name) returns with the toggle map, the
\* value map and the selected preset as they were before the call.
C24_PresetCommandFrame ==
    backend = "rich" =>
        \A preset_name \in PresetNames :
            GeneratePresetCommand(RichState, preset_name).s = RichState

\* the reply is the ordinal d of a preset or the shortcut dd, d one digit
SelectsPreset(reply) ==
    /\ Len(reply) \in {1, 2}
    /\ \A k \in DOMAIN reply : reply[k] = reply[1]
    /\ IsInt(reply[1])
    /\ ParseInt(reply[1]) \in DOMAIN presets

C26_OrdinalSelects ==
    (pc # "call" /\ lastOp.op = "presets" /\ presets # <<>> /\ IsDigit(lastOp.arg)
       /\ IntOfDigits(lastOp.arg, 0) \in DOMAIN presets) =>
        LET preset_name == presets[IntOfDigits(lastOp.arg, 0)].name
            a == ApplyPreset(RichInitState, preset_name).s
        IN  /\ preset_selected
            /\ selected_preset = preset_name
            /\ checkbox_states = a.checkbox_states
            /\ parameter_values = a.parameter_values

\* C27: the argument vector replayed from the collected result equals the
\* argument vector of the command preview of the same form state.
C27_ReplayEqualsPreview ==
    (Finished /\ call_args.parser.t = "parser") =>
        Replay(result) = ArgVector(RichState)

RECURSIVE TupleIds(_)
TupleIds(items) ==
    IF items = <<>> THEN <<>> ELSE <<Head(items).id>> \o TupleIds(Tail(items))

\* C28: the full-screen create_config_app generates options from the
\* parser only when no option list was supplied; with a parser and any
\* explicit list the form holds exactly the supplied options, no id twice.
C28_ExplicitOptionsOnly ==
    (backend = "textual" /\ pc = "built" /\ call_args.parser.t = "parser") =>
        IF call_args.checkbox_options = <<>> /\ call_args.parameter_options = <<>>
        THEN IdsOf(checkbox_options) \o IdsOf(parameter_options) # <<>>
        ELSE /\ IdsOf(checkbox_options) = TupleIds(call_args.checkbox_options)
             /\ IdsOf(parameter_options) = TupleIds(call_args.parameter_options)
             /\ \A i, j \in DOMAIN IdsOf(checkbox_options) :
                   IdsOf(checkbox_options)[i] = IdsOf(checkbox_options)[j] => i = j

\* C23: in both backends get_checkbox_state(id) is the current value of
\* the declared toggle id and get_input_value(id) the current value of the
\* declared parameter id.
C23_GettersCurrent ==
    /\ backend = "rich" =>
          /\ \A id \in CheckboxIds : GetCheckboxState(id) = checkbox_states[id]
          /\ \A id \in ParameterIds : GetInputValue(id) = parameter_values[id]
    /\ (backend = "textual" /\ mounted) =>
          /\ \A id \in CheckboxIds : TextualGetCheckboxState(id) = (id \in w_selected)
          /\ \A id \in ParameterIds : TextualGetInputValue(id) = w_value[id]

\* C29: the on_run callback is invoked only by a run action (run button,
\* run key, double click on a preset), at most once per session, with the
\* Result collected from the widgets before the exit request that precedes
\* the call; once a quit has been handled no callback follows.
C29_CallbackOncePerRun ==
    [][ /\ callbacks' # callbacks =>
              /\ lastOp'.op \in {"run", "double_click"}
              /\ callbacks = <<>>
              /\ ~exit_requested
              /\ exit_requested'
              /\ callbacks' = <<TextualCollectParameters(TextualState', pressed_index')>>
        /\ lastOp'.op = "quit" => callbacks' = callbacks /\ result' = None
        /\ exit_requested => callbacks' = callbacks ]_vars

\* the label shows the rendering of the widgets as they are now
PreviewCurrent == command_label = UpdateCommandPreview(TextualState)

\* C30: while the screen is up, a preview that is behind the widgets
\* eventually shows their rendering (a fair timer tick at the latest); the
\* label is only ever set to the rendering of the widgets as a handler
\* leaves them, so never to a half-applied preset; and a current preview
\* stays current as long as the widgets do not change.
C30_PreviewFollows ==
    /\ [](mounted /\ ~PreviewCurrent => <>PreviewCurrent)
    /\ [][command_label' # command_label => PreviewCurrent']_vars
    /\ [][PreviewCurrent /\ TextualState' = TextualState => PreviewCurrent']_vars

\* a timer tick has brought the preview up to date after a preset was
\* applied and a widget changed, before the widget's own message was handled
C30_Witness ==
    /\ backend = "textual"
    /\ mounted
    /\ pending
    /\ pressed_index # 0
    /\ w_selected # TextualInitState.selected
    /\ lastOp.op = "tick"
    /\ PreviewCurrent

====
